---------------------------- MODULE Spec2Model ----------------------------
(***************************************************************************)
(* Model of the live-transcript pipeline of jakobap/aaron.                 *)
(*                                                                         *)
(*   - the streaming page  src/src/app/live-agent/page.tsx  (LiveAgentPage)*)
(*   - the request/response page  src/src/app/agent/page.tsx (AgentPage,   *)
(*     the second component of the file, lines 123-348)                    *)
(*   - the worklet recorder  src/src/lib/AudioStream/AudioRecorder.ts      *)
(*                                                                         *)
(* Text is a sequence of one-character strings, so that trim, toLowerCase  *)
(* and String.prototype.split are computed character by character.         *)
(* React state setters are applied in the order the code calls them; the   *)
(* ref isCapturingRef mirrors isCapturing (line 47 and every assignment of *)
(* one is paired with the other), so one variable stands for both.         *)
(* The two pages are separate components that are never mounted together;  *)
(* the state they both declare under the same name (status, isCapturing,   *)
(* commentary, topics, capturedStreamRef, audioTrackRef) is one variable   *)
(* here, and each specification drives one page.                           *)
(*                                                                         *)
(* Specifications:                                                         *)
(*   SpecAssembler  handleModelResponse and stopCapture's flush applied to *)
(*                  sequences of server messages (the incremental          *)
(*                  assembler of the streaming page)                       *)
(*   SpecLive       the streaming page's capture lifecycle                 *)
(*   SpecRR         the request/response page's capture lifecycle          *)
(*   SpecRecorder   one AudioRecorder whose client calls start and stop in *)
(*                  any order                                              *)
(*   SpecRetry      one GeminiService.generateWithRetry call whose         *)
(*                  attempts succeed or fail in any order; SpecRetryFair   *)
(*                  adds that every attempt and every delay ends           *)
(*                                                                         *)
(* State updaters run once each (a production build: no StrictMode double  *)
(* invocation).  An updater passed to setLiveTranscript runs inside the    *)
(* call when the component has no update pending, and at the next render   *)
(* otherwise; the setTopics and setCommentary calls it makes are queued    *)
(* when it runs.  Each handler's updates are rendered before the next      *)
(* handler runs.                                                           *)
(***************************************************************************)
EXTENDS Integers, Sequences, FiniteSets, TLC

VARIABLES
    \* ---- React state and refs (names as in the source) ----
    status,             \* useState status: a tag naming the message shown
    isCapturing,        \* useState isCapturing / isCapturingRef.current
    commentary,         \* useState commentary: sequence of texts
    topics,             \* useState topics: sequence of [id, title, commentaries]
    liveTranscript,     \* useState liveTranscript (streaming page)
    sessionRef,         \* streaming page: 0 = null, c = session of capture c
    audioRecorderRef,   \* streaming page: 0 = null, c = AudioRecorder of capture c
    capturedStreamRef,  \* 0 = null, c = MediaStream wrapping capture c's audio track
    audioTrackRef,      \* 0 = null, c = audio track of capture c
    mediaRecorderRef,   \* request/response page: 0 = null, c = MediaRecorder of capture c
    intervalIdRef,      \* request/response page: 0 = null, c = interval of capture c
    \* ---- environment ----
    pc,                 \* per startCapture invocation: where it is suspended
    track,              \* per capture: readyState of the audio and video track
    stops,              \* per capture: number of track.stop() calls per track
    listeners,          \* audio tracks that carry the 'ended' -> stopCapture listener
    session,            \* per capture: state of its live session
    rec,                \* per capture: its AudioRecorder
    mrec,               \* per capture: its MediaRecorder
    timers,             \* intervals that are still scheduled
    requests,           \* request/response page: fetches in flight
    now,                \* Date.now()
    rendered,           \* isCapturing as of the last render (what the buttons show)
    recorder,           \* an AudioRecorder used on its own (SpecRecorder)
    retry,              \* one generateWithRetry call (SpecRetry)
    \* ---- history (never read by the program) ----
    fed,                \* the parts delivered to handleModelResponse, in order
    nsteps,             \* number of environment inputs consumed
    hist                \* flags recording what has happened

vars == << status, isCapturing, commentary, topics, liveTranscript, sessionRef,
           audioRecorderRef, capturedStreamRef, audioTrackRef, mediaRecorderRef,
           intervalIdRef, pc, track, stops, listeners, session, rec, mrec,
           timers, requests, now, rendered, recorder, retry, fed, nsteps,
           hist >>

-----------------------------------------------------------------------------
(* Bounds *)

MaxCaptures == 2      \* startCapture invocations per run
MaxInputs == 4        \* server messages per run of the assembler
MaxLiveInputs == 1    \* server messages per run of the streaming controller
MaxChunks == 2        \* chunks sent per run of the request/response controller
MaxClock == 1         \* Date.now() advances at most this often
MaxRetries == 5       \* largest maxRetries option passed to generateWithRetry
MaxStarts == 2        \* start() calls per run of the AudioRecorder

Captures == 1..MaxCaptures
Null == 0

-----------------------------------------------------------------------------
(* Text *)

Whitespace == {" ", "\n"}
Terminals == {".", "!", "?"}

\* String.prototype.toLowerCase, on the letters the model uses
LowerChar(ch) ==
    CASE ch = "S" -> "s" [] ch = "H" -> "h" [] ch = "N" -> "n"
      [] ch = "P" -> "p" [] ch = "G" -> "g" [] ch = "D" -> "d"
      [] OTHER -> ch

toLowerCase(s) == [i \in 1..Len(s) |-> LowerChar(s[i])]

RECURSIVE TrimStart(_)
TrimStart(s) ==
    IF s # << >> /\ Head(s) \in Whitespace THEN TrimStart(Tail(s)) ELSE s

RECURSIVE TrimEnd(_)
TrimEnd(s) ==
    IF s # << >> /\ s[Len(s)] \in Whitespace
    THEN TrimEnd(SubSeq(s, 1, Len(s) - 1)) ELSE s

\* String.prototype.trim
trim(s) == TrimEnd(TrimStart(s))

\* Number of whitespace characters of s from 0-based index q on (greedy \s*)
RECURSIVE SpaceRun(_, _)
SpaceRun(s, q) ==
    IF q < Len(s) /\ s[q + 1] \in Whitespace THEN 1 + SpaceRun(s, q + 1) ELSE 0

\* Whether /(?<=[.!?])\s*/ matches at 0-based index q: the lookbehind needs a
\* terminal right before q; \s* then always matches.
SplitterMatchesAt(s, q) == q >= 1 /\ s[q] \in Terminals

\* String.prototype.split(separator) of ECMAScript (RegExp.prototype[@@split]):
\* p is the end of the last separator, q the position tried; a match that ends
\* at p (an empty match where the last one ended) is skipped.
RECURSIVE SplitFrom(_, _, _)
SplitFrom(s, p, q) ==
    IF q >= Len(s)
    THEN << SubSeq(s, p + 1, Len(s)) >>
    ELSE IF SplitterMatchesAt(s, q)
         THEN LET e == q + SpaceRun(s, q)
              IN  IF e = p
                  THEN SplitFrom(s, p, q + 1)
                  ELSE << SubSeq(s, p + 1, q) >> \o SplitFrom(s, e, e)
         ELSE SplitFrom(s, p, q + 1)

\* .filter(s => s.trim().length > 0)
NonBlank(segs) == SelectSeq(segs, LAMBDA x : Len(trim(x)) > 0)

\* text.split(/(?<=[.!?])\s*/).filter(s => s.trim().length > 0)
SplitSentences(s) == NonBlank(SplitFrom(s, 0, 0))

SilenceMarker == << "s", "i", "l", "e", "n", "c", "e", "." >>
GeneralDiscussion == << "G", "e", "n", "e", "r", "a", "l", " ",
                        "D", "i", "s", "c", "u", "s", "s", "i", "o", "n" >>

-----------------------------------------------------------------------------
(* Incremental assembler of the streaming page.  An assembler state is the  *)
(* record [topics, commentary, liveTranscript] of the three React states.   *)

AsmState(t, c, l) == [topics |-> t, commentary |-> c, liveTranscript |-> l]

InitialTopicId == [tag |-> "initial-topic", at |-> 0]
DateNowId(clock) == [tag |-> "Date.now", at |-> clock]

NewTopic(id, title, sentences) ==
    [id |-> id, title |-> title, commentaries |-> sentences]

\* A faulty updater that pushes onto the first topic
PushToFirstTopic(ts, sentences) ==
    IF Len(ts) > 0
    THEN [ts EXCEPT ![1].commentaries = @ \o sentences]
    ELSE IF Len(sentences) > 0
         THEN << [id |-> InitialTopicId, title |-> GeneralDiscussion,
                  commentaries |-> sentences] >>
         ELSE ts

\* A faulty updater that never creates the default topic
PushOnlyToExisting(ts, sentences) ==
    IF Len(ts) > 0
    THEN [ts EXCEPT ![Len(ts)].commentaries = @ \o sentences]
    ELSE ts

\* setTopics updater of lines 63-71 and 97-105: push onto the last topic, or
\* create the default topic when there is none.
PushToOpenTopic(ts, sentences) ==
    IF Len(ts) > 0
    THEN [ts EXCEPT ![Len(ts)].commentaries = @ \o sentences]
    ELSE IF Len(sentences) > 0
         THEN << NewTopic(InitialTopicId, GeneralDiscussion, sentences) >>
         ELSE ts

\* A faulty flush that stores the buffer's sentences and keeps the buffer
flushKeepingBuffer(st) ==
    LET sentences == SplitSentences(trim(st.liveTranscript))
    IN  AsmState(PushToOpenTopic(st.topics, sentences),
                 st.commentary \o sentences, st.liveTranscript)

\* A faulty flush that empties the buffer without storing its text
flushDiscarding(st) == AsmState(st.topics, st.commentary, << >>)

flushLiveTranscript(st) ==
    LET transcriptToFlush == trim(st.liveTranscript)
        sentences == SplitSentences(transcriptToFlush)
    IN  IF transcriptToFlush # << >> /\ Len(sentences) > 0
        THEN AsmState(PushToOpenTopic(st.topics, sentences),
                      st.commentary \o sentences, << >>)
        ELSE AsmState(st.topics, st.commentary, << >>)

\* A faulty guard that ignores the empty fragment only
IgnoresOnlyEmpty(newCommentary) == newCommentary = << >>

\* The guard of line 84
IsIgnoredCommentary(newCommentary) ==
    newCommentary = << >> \/ trim(toLowerCase(newCommentary)) = SilenceMarker

\* A faulty updater that stores the complete sentences and keeps them in
\* the buffer as well
AppendKeepingAll(st, newCommentary) ==
    LET updatedTranscript == trim(st.liveTranscript \o newCommentary)
        sentences == SplitSentences(updatedTranscript)
    IN  IF Len(sentences) > 1
        THEN AsmState(PushToOpenTopic(st.topics,
                                      SubSeq(sentences, 1, Len(sentences) - 1)),
                      st.commentary, updatedTranscript)
        ELSE AsmState(st.topics, st.commentary, updatedTranscript)

\* A faulty updater that never splits the buffer into sentences
AppendWithoutSplit(st, newCommentary) ==
    AsmState(st.topics, st.commentary, trim(st.liveTranscript \o newCommentary))

\* The liveTranscript updater of lines 87-111
AppendCommentary(st, newCommentary) ==
    LET updatedTranscript == trim(st.liveTranscript \o newCommentary)
        sentences == SplitSentences(updatedTranscript)
    IN  IF Len(sentences) > 1
        THEN LET completeSentences == SubSeq(sentences, 1, Len(sentences) - 1)
                 remainingTranscript == sentences[Len(sentences)]
             IN  AsmState(PushToOpenTopic(st.topics, completeSentences),
                          st.commentary \o completeSentences,
                          remainingTranscript)
        ELSE AsmState(st.topics, st.commentary, updatedTranscript)

\* The updates one handler has queued: st is the state with the updates
\* queued so far applied, dirty says that the component has an update
\* pending, late holds the sentences whose setTopics push was queued by an
\* updater that ran at render time.
Queued(st, dirty, late) == [st |-> st, dirty |-> dirty, late |-> late]

\* setLiveTranscript(updater), lines 58 and 87, where next is the updater's
\* result on q.st.  With nothing pending the updater runs inside the call
\* and its setTopics push is queued there; otherwise the updater runs at the
\* next render, and its push is queued behind every setTopics call the
\* handler makes.  The sentences pushed are those added to commentary.
setLiveTranscript(q, next) ==
    IF ~q.dirty
    THEN Queued(next, next # q.st, q.late)
    ELSE Queued([next EXCEPT !.topics = q.st.topics], TRUE,
                q.late \o SubSeq(next.commentary, Len(q.st.commentary) + 1,
                                 Len(next.commentary)))

\* The render that follows a handler: the pushes queued at render time are
\* applied to the topics the handler's own setTopics calls produced.
ApplyLate(q) == [q.st EXCEPT !.topics = PushToOpenTopic(@, q.late)]

handleCommentary(q, newCommentary) ==
    IF IsIgnoredCommentary(newCommentary) THEN q
    ELSE setLiveTranscript(q, AppendCommentary(q.st, newCommentary))

HasTitle(ts, title) == \E i \in 1..Len(ts) : ts[i].title = title

\* A faulty updater without the duplicate check
AddTopicAlways(ts, newTopicTitle, clock) ==
    Append(ts, NewTopic(DateNowId(clock), newTopicTitle, << >>))

\* setTopics updater of lines 129-134
AddTopicUnlessPresent(ts, newTopicTitle, clock) ==
    IF HasTitle(ts, newTopicTitle) THEN ts
    ELSE Append(ts, NewTopic(DateNowId(clock), newTopicTitle, << >>))

\* The functionCall branch, lines 120-136
handleFunctionCall(q, fc, clock) ==
    IF fc.name = "addNewTopic" /\ fc.topic # << >>
    THEN LET flushed == setLiveTranscript(q, flushLiveTranscript(q.st))
             added == AddTopicUnlessPresent(flushed.st.topics, fc.topic, clock)
         IN  Queued([flushed.st EXCEPT !.topics = added],
                    flushed.dirty \/ added # flushed.st.topics,
                    flushed.late)
    ELSE q

NoCall == [name |-> "none", topic |-> << >>]
TextPart(t) == [text |-> t, functionCall |-> NoCall]
CallPart(n, t) == [text |-> << >>, functionCall |-> [name |-> n, topic |-> t]]

\* One iteration of the loop of lines 114-137
handlePart(q, part, clock) ==
    LET afterText == IF part.text # << >>
                     THEN handleCommentary(q, part.text) ELSE q
    IN  IF part.functionCall.name # "none"
        THEN handleFunctionCall(afterText, part.functionCall, clock)
        ELSE afterText

\* handleModelResponse: a message is the sequence of its parts (a message
\* without serverContent.modelTurn.parts is the empty sequence: lines 79-81
\* return, and the loop over no parts does the same).
RECURSIVE handleParts(_, _, _)
handleParts(q, message, clock) ==
    IF message = << >> THEN q
    ELSE handleParts(handlePart(q, Head(message), clock), Tail(message), clock)

\* handleModelResponse followed by the render of its updates; pending says
\* whether the component had an update pending when the message arrived.
handleModelResponse(st, message, clock, pending) ==
    ApplyLate(handleParts(Queued(st, pending, << >>), message, clock))

CurrentAsm == AsmState(topics, commentary, liveTranscript)

SetAsm(st) ==
    /\ topics' = st.topics
    /\ commentary' = st.commentary
    /\ liveTranscript' = st.liveTranscript

-----------------------------------------------------------------------------
(* Streaming page: controller.  Handlers are computed on the record Ctl of *)
(* everything stopCapture can touch, so that a handler that ends in         *)
(* stopCapture (a catch block, a session callback) is one step.             *)

Ctl ==
    [status |-> status, isCapturing |-> isCapturing, topics |-> topics,
     commentary |-> commentary, liveTranscript |-> liveTranscript,
     sessionRef |-> sessionRef, audioRecorderRef |-> audioRecorderRef,
     capturedStreamRef |-> capturedStreamRef, audioTrackRef |-> audioTrackRef,
     track |-> track, stops |-> stops, listeners |-> listeners,
     session |-> session, rec |-> rec]

Commit(K) ==
    /\ status' = K.status
    /\ isCapturing' = K.isCapturing
    /\ topics' = K.topics
    /\ commentary' = K.commentary
    /\ liveTranscript' = K.liveTranscript
    /\ sessionRef' = K.sessionRef
    /\ audioRecorderRef' = K.audioRecorderRef
    /\ capturedStreamRef' = K.capturedStreamRef
    /\ audioTrackRef' = K.audioTrackRef
    /\ track' = K.track
    /\ stops' = K.stops
    /\ listeners' = K.listeners
    /\ session' = K.session
    /\ rec' = K.rec

\* AudioRecorder of one capture.  phase: "none" (not constructed), "starting"
\* (this.starting pending), "recording" (this.recording), "rejected" (start
\* rejected, nothing cleaned up), "stopped" (handleStop ran).  worklet: the
\* source is connected to recordingWorklet (line 71) and its port is open, so
\* 'data' events are emitted.  stopQueued: handleStop is registered on
\* this.starting (line 115).  stopCalled records that stop() was called.
NoRecorder ==
    [phase |-> "none", worklet |-> FALSE, stopQueued |-> FALSE,
     stopCalled |-> FALSE, internal |-> FALSE]

\* handleStop, lines 96-112
handleStop(r) ==
    [r EXCEPT !.phase = "stopped", !.worklet = FALSE, !.stopQueued = FALSE]

\* AudioRecorder.stop, lines 95-119
RecorderStop(r) ==
    IF r.phase = "starting"
    THEN [r EXCEPT !.stopQueued = TRUE, !.stopCalled = TRUE]
    ELSE [handleStop(r) EXCEPT !.stopCalled = TRUE]

\* AudioRecorder.start(stream) up to its first await, lines 33-52
RecorderStart(r, stream) ==
    IF r.phase = "recording" THEN r
    ELSE [r EXCEPT !.phase = "starting", !.internal = (stream = Null)]

\* The settling of this.starting runs the queued handleStop (line 115)
\* before the awaiting startCapture continues.
RecorderSettle(r, outcome) ==
    LET settled == [r EXCEPT !.phase = outcome]
    IN  IF r.stopQueued THEN handleStop(settled) ELSE settled

\* MediaStreamTrack.stop()
StoppedState(readyState) == IF readyState = "live" THEN "stopped" ELSE readyState

\* Session.close()
ClosedByClient(st) == IF st = "open" THEN "closing" ELSE st

\* stopCapture, lines 140-174
stopCapture(K) ==
    LET r == K.audioRecorderRef
        s == K.sessionRef
        m == K.capturedStreamRef
        a == K.audioTrackRef
        flushed == flushLiveTranscript(
                       AsmState(K.topics, K.commentary, K.liveTranscript))
    IN  [K EXCEPT
           !.isCapturing = FALSE,
           !.rec = IF r # Null THEN [@ EXCEPT ![r] = RecorderStop(@)] ELSE @,
           !.audioRecorderRef = Null,
           !.session = IF s # Null THEN [@ EXCEPT ![s] = ClosedByClient(@)] ELSE @,
           !.sessionRef = Null,
           !.track = IF m # Null
                     THEN [@ EXCEPT ![m].audio = StoppedState(@)] ELSE @,
           !.stops = IF m # Null THEN [@ EXCEPT ![m].audio = @ + 1] ELSE @,
           !.capturedStreamRef = Null,
           !.listeners = IF a # Null THEN @ \ {a} ELSE @,
           !.audioTrackRef = Null,
           !.topics = flushed.topics,
           !.commentary = flushed.commentary,
           !.liveTranscript = flushed.liveTranscript,
           !.status = "stopped"]

\* The catch block of startCapture, lines 269-276
catchStartError(K, errName) ==
    stopCapture([K EXCEPT !.status = IF errName = "NotAllowedError"
                                     THEN "denied" ELSE "error"])

\* A faulty no-audio branch that reports and returns without stopping the
\* display stream's tracks
noAudioTrackLeaking(K, c) == [K EXCEPT !.status = "noAudio"]

\* The no-audio branch of startCapture, lines 189-193: every track of the
\* display stream (its video track) is stopped.
noAudioTrack(K, c) ==
    [K EXCEPT !.status = "noAudio",
              !.track[c].video = "stopped",
              !.stops[c].video = @ + 1]

\* History: a startCapture invocation ended in its catch block, and what it
\* left behind.
FailedStart(c, K) == [cap |-> c, capturing |-> K.isCapturing, status |-> K.status]

NoteFailedStart(c, K) ==
    hist' = [hist EXCEPT !.failed = @ \cup {FailedStart(c, K)}]

rrOnly == << mediaRecorderRef, intervalIdRef, mrec, timers, requests, recorder,
            retry >>

\* Capture ids are handed out in order.
NextCapture(c) == pc[c] = "idle" /\ (IF c = 1 THEN TRUE ELSE pc[c - 1] # "idle")

\* startCapture up to its first await, lines 176-186 (the start button is
\* enabled while the last render saw isCapturing = false, line 301)
\* A faulty start that keeps the previous capture's session state
StartCaptureKeeping(c) ==
    /\ ~rendered
    /\ NextCapture(c)
    /\ Commit([Ctl EXCEPT !.status = "requesting"])
    /\ pc' = [pc EXCEPT ![c] = "permission"]
    /\ fed' = << >>
    /\ UNCHANGED << rrOnly, now, rendered, nsteps, hist >>

StartCapture(c) ==
    /\ ~rendered
    /\ NextCapture(c)
    /\ Commit([Ctl EXCEPT !.status = "requesting", !.commentary = << >>,
                          !.topics = << >>, !.liveTranscript = << >>])
    /\ pc' = [pc EXCEPT ![c] = "permission"]
    /\ fed' = << >>
    /\ hist' = IF \A d \in Captures :
                     d < c => pc[d] = "done" /\ session[d] # "open"
               THEN [hist EXCEPT !.afresh = @ \cup {c}] ELSE hist
    /\ UNCHANGED << rrOnly, now, rendered, nsteps >>

\* getDisplayMedia rejects, lines 183 and 269-276
PermissionDenied(c, errName) ==
    /\ pc[c] = "permission"
    /\ Commit(catchStartError(Ctl, errName))
    /\ NoteFailedStart(c, catchStartError(Ctl, errName))
    /\ pc' = [pc EXCEPT ![c] = "done"]
    /\ UNCHANGED << rrOnly, now, rendered, fed, nsteps >>

\* getDisplayMedia resolves, lines 183-222: the display stream always has
\* a video track (video: true) and has an audio track or not.
PermissionGranted(c, hasAudio, hasApiKey) ==
    /\ pc[c] = "permission"
    /\ LET acquired == [Ctl EXCEPT
                          !.track[c] = [audio |-> IF hasAudio THEN "live" ELSE "none",
                                        video |-> "live"]]
           held == [acquired EXCEPT !.audioTrackRef = c,
                                    !.capturedStreamRef = c,
                                    !.status = "initializing"]
       IN  IF ~hasAudio
           THEN /\ Commit(noAudioTrack(acquired, c))
                /\ pc' = [pc EXCEPT ![c] = "done"]
                /\ UNCHANGED hist
           ELSE IF ~hasApiKey
           THEN /\ Commit(catchStartError(held, "Error"))
                /\ NoteFailedStart(c, catchStartError(held, "Error"))
                /\ pc' = [pc EXCEPT ![c] = "done"]
           ELSE /\ Commit(held)
                /\ pc' = [pc EXCEPT ![c] = "connect"]
                /\ UNCHANGED hist
    /\ UNCHANGED << rrOnly, now, rendered, fed, nsteps >>

\* ai.live.connect resolves, lines 222-261: the session is stored, the
\* recorder is created and its start is awaited.
ConnectResolved(c) ==
    /\ pc[c] = "connect"
    /\ Commit([Ctl EXCEPT
                 !.session[c] = "open",
                 !.sessionRef = c,
                 !.audioRecorderRef = c,
                 !.rec[c] = RecorderStart(NoRecorder, Ctl.capturedStreamRef)])
    /\ pc' = [pc EXCEPT ![c] = "recorder"]
    /\ UNCHANGED << rrOnly, now, rendered, fed, nsteps, hist >>

\* ai.live.connect rejects
ConnectRejected(c) ==
    /\ pc[c] = "connect"
    /\ Commit(catchStartError(Ctl, "Error"))
    /\ NoteFailedStart(c, catchStartError(Ctl, "Error"))
    /\ pc' = [pc EXCEPT ![c] = "done"]
    /\ UNCHANGED << rrOnly, now, rendered, fed, nsteps >>

\* AudioRecorder.start reaches line 71: the recording worklet is connected
RecorderConnects(c) ==
    /\ rec[c].phase = "starting"
    /\ ~rec[c].worklet
    /\ rec' = [rec EXCEPT ![c].worklet = TRUE]
    /\ UNCHANGED << status, isCapturing, commentary, topics, liveTranscript,
                    sessionRef, audioRecorderRef, capturedStreamRef,
                    audioTrackRef, pc, track, stops, listeners, session,
                    rrOnly, now, rendered, fed, nsteps, hist >>

\* AudioRecorder.start resolves (lines 84-85) and startCapture continues,
\* lines 263-267; addEventListener on a null audioTrackRef throws.
RecorderStartResolved(c) ==
    /\ pc[c] = "recorder"
    /\ rec[c].phase = "starting"
    /\ rec[c].worklet
    /\ LET settled == [Ctl EXCEPT !.rec[c] = RecorderSettle(@, "recording")]
           capturing == [settled EXCEPT !.isCapturing = TRUE,
                                        !.status = "capturing"]
       IN  IF capturing.audioTrackRef = Null
           THEN /\ Commit(catchStartError(capturing, "TypeError"))
                /\ NoteFailedStart(c, catchStartError(capturing, "TypeError"))
           ELSE /\ Commit([capturing EXCEPT
                             !.listeners = @ \cup {capturing.audioTrackRef}])
                /\ UNCHANGED hist
    /\ pc' = [pc EXCEPT ![c] = "done"]
    /\ UNCHANGED << rrOnly, now, rendered, fed, nsteps >>

\* AudioRecorder.start rejects (line 87) and startCapture's catch runs
RecorderStartRejected(c) ==
    /\ pc[c] = "recorder"
    /\ rec[c].phase = "starting"
    /\ LET K == catchStartError(
                     [Ctl EXCEPT !.rec[c] = RecorderSettle(@, "rejected")],
                     "Error")
       IN  Commit(K) /\ NoteFailedStart(c, K)
    /\ pc' = [pc EXCEPT ![c] = "done"]
    /\ UNCHANGED << rrOnly, now, rendered, fed, nsteps >>

\* The recorder's 'data' handler, lines 249-259
RecorderData(c) ==
    /\ rec[c].worklet
    /\ hist' = IF sessionRef # Null /\ isCapturing
               THEN [hist EXCEPT !.sent = @ \cup
                        {IF rec[c].stopCalled THEN "afterStop" ELSE "running"}]
               ELSE IF session[c] = "open" /\ ~rec[c].stopCalled
               THEN [hist EXCEPT !.gated = TRUE]
               ELSE hist
    /\ UNCHANGED << status, isCapturing, commentary, topics, liveTranscript,
                    sessionRef, audioRecorderRef, capturedStreamRef,
                    audioTrackRef, pc, track, stops, listeners, session, rec,
                    rrOnly, now, rendered, fed, nsteps >>

\* The stop button, lines 307-308: enabled while the last render saw
\* isCapturing = true.
StopButton ==
    /\ rendered
    /\ Commit(stopCapture(Ctl))
    /\ hist' = [hist EXCEPT !.both = @ \cup (hist.ended \cap Captures)]
    /\ UNCHANGED << pc, rrOnly, now, rendered, fed, nsteps >>

\* React renders: isCapturingRef.current = isCapturing (line 47) and the
\* buttons' disabled attributes follow.
Render ==
    /\ rendered # isCapturing
    /\ rendered' = isCapturing
    /\ UNCHANGED << status, isCapturing, commentary, topics, liveTranscript,
                    sessionRef, audioRecorderRef, capturedStreamRef,
                    audioTrackRef, pc, track, stops, listeners, session, rec,
                    rrOnly, now, fed, nsteps, hist >>

\* The audio track ends at its source (with the video track or alone); the
\* 'ended' listener of line 267 is stopCapture.
AudioTrackEnded(c, withVideo) ==
    /\ track[c].audio = "live"
    /\ LET ended == [Ctl EXCEPT
                       !.track[c].audio = "ended",
                       !.track[c].video = IF withVideo /\ @ = "live"
                                          THEN "ended" ELSE @]
       IN  Commit(IF c \in listeners THEN stopCapture(ended) ELSE ended)
    /\ hist' = IF c \in listeners
               THEN [hist EXCEPT !.ended = @ \cup {c}] ELSE hist
    /\ UNCHANGED << pc, rrOnly, now, rendered, fed, nsteps >>

\* onerror, lines 235-239
SessionError(c) ==
    /\ session[c] \in {"open", "closing"}
    /\ Commit(stopCapture([Ctl EXCEPT !.status = "error",
                                      !.session[c] = "closing"]))
    /\ UNCHANGED << pc, rrOnly, now, rendered, fed, nsteps, hist >>

\* onclose, lines 240-243
SessionClosed(c) ==
    /\ session[c] \in {"open", "closing"}
    /\ LET closed == [Ctl EXCEPT !.session[c] = "closed"]
       IN  Commit(IF isCapturing THEN stopCapture(closed) ELSE closed)
    /\ UNCHANGED << pc, rrOnly, now, rendered, fed, nsteps, hist >>

\* onmessage: handleModelResponse, lines 78-138.  A session delivers
\* messages until its close completes.
OnMessage(c, message) ==
    /\ session[c] \in {"open", "closing"}
    /\ nsteps < MaxLiveInputs
    /\ \E pending \in BOOLEAN :
          LET handled == handleModelResponse(CurrentAsm, message, now, pending)
          IN  /\ SetAsm(handled)
              /\ hist' = IF /\ session[c] = "closing"
                            /\ ~isCapturing
                            /\ handled # CurrentAsm
                         THEN [hist EXCEPT !.late = TRUE] ELSE hist
    /\ fed' = fed \o message
    /\ nsteps' = nsteps + 1
    /\ UNCHANGED << status, isCapturing, sessionRef, audioRecorderRef,
                    capturedStreamRef, audioTrackRef, pc, track, stops,
                    listeners, session, rec, rrOnly, now, rendered >>

\* Date.now() moves on
AdvanceClock ==
    /\ now < MaxClock
    /\ now' = now + 1
    /\ UNCHANGED << status, isCapturing, commentary, topics, liveTranscript,
                    sessionRef, audioRecorderRef, capturedStreamRef,
                    audioTrackRef, pc, track, stops, listeners, session, rec,
                    rrOnly, rendered, fed, nsteps, hist >>

\* handleModelResponse applied to one server message, lines 78-138; the
\* function reads no controller state, so the assembler specification applies
\* it to every message of its input set in every state.
ModelResponse(message) ==
    /\ nsteps < MaxInputs
    /\ \E pending \in BOOLEAN :
          SetAsm(handleModelResponse(CurrentAsm, message, now, pending))
    /\ fed' = fed \o message
    /\ nsteps' = nsteps + 1
    /\ UNCHANGED << status, isCapturing, sessionRef, audioRecorderRef,
                    capturedStreamRef, audioTrackRef, pc, track, stops,
                    listeners, session, rec, rrOnly, now, rendered, hist >>

\* stopCapture, lines 140-174, called with whatever the assembler holds
StopCapture ==
    /\ Commit(stopCapture(Ctl))
    /\ UNCHANGED << pc, rrOnly, now, rendered, fed, nsteps, hist >>

-----------------------------------------------------------------------------
(* Request/response page (AgentPage, src/src/app/agent/page.tsx:123-348)   *)

\* MediaRecorder of one capture: its state attribute, and the number of
\* dataavailable events it has queued (stop() fires one asynchronously).
NoMediaRecorder == [state |-> "none", queued |-> 0]

\* MediaRecorder.stop()
MediaRecorderStop(r) == [state |-> "inactive", queued |-> r.queued + 1]

CtlRR ==
    [status |-> status, isCapturing |-> isCapturing,
     capturedStreamRef |-> capturedStreamRef, audioTrackRef |-> audioTrackRef,
     intervalIdRef |-> intervalIdRef, track |-> track, stops |-> stops,
     listeners |-> listeners, mrec |-> mrec, timers |-> timers]

CommitRR(K) ==
    /\ status' = K.status
    /\ isCapturing' = K.isCapturing
    /\ capturedStreamRef' = K.capturedStreamRef
    /\ audioTrackRef' = K.audioTrackRef
    /\ intervalIdRef' = K.intervalIdRef
    /\ track' = K.track
    /\ stops' = K.stops
    /\ listeners' = K.listeners
    /\ mrec' = K.mrec
    /\ timers' = K.timers

liveOnly == << liveTranscript, sessionRef, audioRecorderRef, session, rec,
              recorder, retry >>

\* stopCapture of the request/response page, lines 147-176
stopCaptureRR(K) ==
    LET i == K.intervalIdRef
        r == mediaRecorderRef
        m == K.capturedStreamRef
        a == K.audioTrackRef
    IN  [K EXCEPT
           !.timers = IF i # Null THEN @ \ {i} ELSE @,
           !.intervalIdRef = Null,
           !.mrec = IF r # Null /\ K.mrec[r].state = "recording"
                    THEN [@ EXCEPT ![r] = MediaRecorderStop(@)] ELSE @,
           !.track = IF m # Null
                     THEN [@ EXCEPT ![m].audio = StoppedState(@)] ELSE @,
           !.stops = IF m # Null THEN [@ EXCEPT ![m].audio = @ + 1] ELSE @,
           !.capturedStreamRef = Null,
           !.listeners = IF a # Null THEN @ \ {a} ELSE @,
           !.audioTrackRef = Null,
           !.status = "stopped",
           !.isCapturing = FALSE]

\* Captures that a stopCapture call is tearing down
TornDown == {capturedStreamRef, audioTrackRef} \ {Null}

\* startCapture up to its await, lines 226-235
StartCaptureRR(c) ==
    /\ ~rendered
    /\ NextCapture(c)
    /\ status' = "requesting"
    /\ commentary' = << >>
    /\ topics' = << >>
    /\ pc' = [pc EXCEPT ![c] = "permission"]
    /\ hist' = IF \A d \in Captures : d < c => d \in hist.stopped
               THEN [hist EXCEPT !.afresh = @ \cup {c}] ELSE hist
    /\ UNCHANGED << isCapturing, capturedStreamRef, audioTrackRef,
                    mediaRecorderRef, intervalIdRef, track, stops, listeners,
                    mrec, timers, requests, liveOnly, now, rendered, fed,
                    nsteps >>

\* getDisplayMedia rejects, lines 275-281 (no teardown in this catch)
PermissionDeniedRR(c, errName) ==
    /\ pc[c] = "permission"
    /\ status' = IF errName = "NotAllowedError" THEN "denied" ELSE "error"
    /\ NoteFailedStart(c, [CtlRR EXCEPT !.status = status'])
    /\ pc' = [pc EXCEPT ![c] = "done"]
    /\ UNCHANGED << isCapturing, commentary, topics, capturedStreamRef,
                    audioTrackRef, mediaRecorderRef, intervalIdRef, track,
                    stops, listeners, mrec, timers, requests, liveOnly, now,
                    rendered, fed, nsteps >>

\* getDisplayMedia resolves, lines 237-273.  recorderOk: new MediaRecorder
\* (line 255, NotSupportedError for a mime type the browser cannot record)
\* and its start (line 258) do not throw; when one does, the catch block of
\* lines 275-281 reports the error and does nothing else.
PermissionGrantedRR(c, hasAudio, recorderOk) ==
    /\ pc[c] = "permission"
    /\ LET acquired == [CtlRR EXCEPT
                          !.track[c] = [audio |-> IF hasAudio THEN "live" ELSE "none",
                                        video |-> "live"]]
           thrown == [acquired EXCEPT !.audioTrackRef = c,
                                      !.capturedStreamRef = c,
                                      !.status = "error"]
       IN  IF hasAudio /\ ~recorderOk
           THEN /\ CommitRR(thrown)
                /\ NoteFailedStart(c, thrown)
                /\ UNCHANGED mediaRecorderRef
           ELSE IF hasAudio
           THEN /\ CommitRR([acquired EXCEPT
                               !.audioTrackRef = c,
                               !.capturedStreamRef = c,
                               !.mrec[c] = [state |-> "recording", queued |-> 0],
                               !.isCapturing = TRUE,
                               !.status = "capturing",
                               !.intervalIdRef = c,
                               !.timers = @ \cup {c},
                               !.listeners = @ \cup {c}])
                /\ mediaRecorderRef' = c
                /\ UNCHANGED hist
           ELSE /\ CommitRR([acquired EXCEPT
                               !.audioTrackRef = Null,
                               !.status = "noAudio",
                               !.track[c].video = "stopped",
                               !.stops[c].video = @ + 1])
                /\ UNCHANGED << mediaRecorderRef, hist >>
    /\ pc' = [pc EXCEPT ![c] = "done"]
    /\ UNCHANGED << commentary, topics, requests, liveOnly, now, rendered,
                    fed, nsteps >>

\* The stop button, lines 313-314
StopButtonRR ==
    /\ rendered
    /\ CommitRR(stopCaptureRR(CtlRR))
    /\ hist' = [hist EXCEPT !.stopped = @ \cup TornDown]
    /\ UNCHANGED << commentary, topics, mediaRecorderRef, requests, liveOnly,
                    pc, now, rendered, fed, nsteps >>

\* The interval callback, lines 262-266
Tick(t) ==
    /\ t \in timers
    /\ mediaRecorderRef # Null
    /\ mrec[mediaRecorderRef].state = "recording"
    /\ mrec' = [mrec EXCEPT ![mediaRecorderRef] = MediaRecorderStop(@)]
    /\ UNCHANGED << status, isCapturing, commentary, topics,
                    capturedStreamRef, audioTrackRef, mediaRecorderRef,
                    intervalIdRef, pc, track, stops, listeners, timers,
                    requests, liveOnly, now, rendered, fed, nsteps, hist >>

\* The audio track ends at its source: a recording MediaRecorder on it
\* stops, and the 'ended' listener of line 268 is stopCapture.
AudioTrackEndedRR(c, withVideo) ==
    /\ track[c].audio = "live"
    /\ LET ended == [CtlRR EXCEPT
                       !.track[c].audio = "ended",
                       !.track[c].video = IF withVideo /\ @ = "live"
                                          THEN "ended" ELSE @,
                       !.mrec[c] = IF @.state = "recording"
                                   THEN MediaRecorderStop(@) ELSE @]
       IN  CommitRR(IF c \in listeners THEN stopCaptureRR(ended) ELSE ended)
    /\ hist' = IF c \in listeners
               THEN [hist EXCEPT !.stopped = @ \cup TornDown] ELSE hist
    /\ UNCHANGED << commentary, topics, mediaRecorderRef, requests, liveOnly,
                    pc, now, rendered, fed, nsteps >>

\* A faulty tail that never starts the recorder again
RestartNever(recorders) == recorders

\* The tail of handleDataAvailable, lines 221-223: start() on a recorder
\* that is not inactive throws InvalidStateError and changes nothing.
RestartRecorder(recorders) ==
    IF mediaRecorderRef # Null /\ intervalIdRef # Null
       /\ recorders[mediaRecorderRef].state = "inactive"
    THEN [recorders EXCEPT ![mediaRecorderRef].state = "recording"]
    ELSE recorders

\* commentaryRef.current.join('\n'), line 183
RECURSIVE JoinLines(_)
JoinLines(lines) ==
    IF lines = << >> THEN << >>
    ELSE IF Len(lines) = 1 THEN lines[1]
    ELSE lines[1] \o << "\n" >> \o JoinLines(Tail(lines))

\* A faulty handler that posts every chunk, the empty one included
DataAvailablePostingAll(c, size) ==
    /\ mrec[c].queued > 0
    /\ nsteps < MaxChunks
    /\ requests' = requests \cup
          {[id |-> nsteps, cap |-> c, afterStop |-> c \in hist.stopped,
            commentary |-> JoinLines(commentary)]}
    /\ nsteps' = nsteps + 1
    /\ mrec' = [mrec EXCEPT ![c].queued = @ - 1]
    /\ UNCHANGED << status, isCapturing, commentary, topics,
                    capturedStreamRef, audioTrackRef, mediaRecorderRef,
                    intervalIdRef, pc, track, stops, listeners, timers,
                    liveOnly, now, rendered, fed, hist >>

\* handleDataAvailable up to its await, lines 178-189: a chunk with bytes
\* is posted, an empty one goes straight to the tail.
DataAvailable(c, size) ==
    /\ mrec[c].queued > 0
    /\ LET delivered == [mrec EXCEPT ![c].queued = @ - 1]
       IN  IF size > 0
           THEN /\ nsteps < MaxChunks
                /\ requests' = requests \cup
                      {[id |-> nsteps, cap |-> c,
                        afterStop |-> c \in hist.stopped,
                        commentary |-> JoinLines(commentary)]}
                /\ nsteps' = nsteps + 1
                /\ mrec' = delivered
                /\ UNCHANGED hist
           ELSE /\ mrec' = RestartRecorder(delivered)
                /\ hist' = IF isCapturing
                           THEN [hist EXCEPT !.emptyDropped = TRUE] ELSE hist
                /\ UNCHANGED << requests, nsteps >>
    /\ UNCHANGED << status, isCapturing, commentary, topics,
                    capturedStreamRef, audioTrackRef, mediaRecorderRef,
                    intervalIdRef, pc, track, stops, listeners, timers,
                    liveOnly, now, rendered, fed >>

\* The result of one request: a thrown fetch, a non-2xx status, or a JSON
\* body {status, commentary, newTopic}.
Silence == << "S", "i", "l", "e", "n", "c", "e", "." >>
Results ==
    {[ok |-> FALSE, status |-> "none", commentary |-> << >>, newTopic |-> << >>],
     [ok |-> TRUE, status |-> "error", commentary |-> << >>, newTopic |-> << >>]}
    \cup {[ok |-> TRUE, status |-> "success", commentary |-> x, newTopic |-> t] :
            x \in {<< >>, Silence, << "a", "." >>}, t \in {<< >>, << "T" >>}}

\* setTopics updater of lines 201-207
PushToLastTopic(ts, text) ==
    IF Len(ts) > 0 THEN [ts EXCEPT ![Len(ts)].commentaries = Append(@, text)]
    ELSE ts

\* The success branch, lines 197-212
ApplyResult(st, result, clock) ==
    LET withText ==
            IF result.commentary # << >> /\ result.commentary # Silence
            THEN [st EXCEPT !.commentary = Append(@, result.commentary),
                            !.topics = PushToLastTopic(@, result.commentary)]
            ELSE st
    IN  IF result.newTopic # << >>
        THEN [withText EXCEPT
                !.topics = Append(@, NewTopic(DateNowId(clock),
                                              result.newTopic, << >>))]
        ELSE withText

\* handleDataAvailable after its await, lines 191-223
Response(req, result) ==
    /\ req \in requests
    /\ requests' = requests \ {req}
    /\ LET st == IF result.ok /\ result.status = "success"
                 THEN ApplyResult(CurrentAsm, result, now) ELSE CurrentAsm
       IN  /\ topics' = st.topics
           /\ commentary' = st.commentary
    /\ mrec' = RestartRecorder(mrec)
    /\ LET success == result.ok /\ result.status = "success"
           noted == IF /\ req.cap \in hist.stopped
                       /\ ~isCapturing
                       /\ success
                       /\ ApplyResult(CurrentAsm, result, now) # CurrentAsm
                    THEN [hist EXCEPT !.late = TRUE]
                    ELSE IF isCapturing /\ ~success
                    THEN [hist EXCEPT !.chunkFailed = TRUE]
                    ELSE hist
       IN  hist' = IF success /\ result.commentary \notin {<< >>, Silence}
                   THEN [noted EXCEPT !.accepted[req.cap] =
                                          Append(@, result.commentary)]
                   ELSE noted
    /\ UNCHANGED << status, isCapturing, capturedStreamRef, audioTrackRef,
                    mediaRecorderRef, intervalIdRef, pc, track, stops,
                    listeners, timers, liveOnly, now, rendered, fed, nsteps >>

NextRR ==
    \/ \E c \in Captures : StartCaptureRR(c)
    \/ \E c \in Captures, e \in {"NotAllowedError", "Error"} : PermissionDeniedRR(c, e)
    \/ \E c \in Captures, a \in BOOLEAN, r \in BOOLEAN : PermissionGrantedRR(c, a, r)
    \/ StopButtonRR
    \/ Render
    \/ \E t \in Captures : Tick(t)
    \/ \E c \in Captures, v \in BOOLEAN : AudioTrackEndedRR(c, v)
    \/ \E c \in Captures, size \in {0, 1} : DataAvailable(c, size)
    \/ \E req \in requests, result \in Results : Response(req, result)
    \/ AdvanceClock

-----------------------------------------------------------------------------
(* AudioRecorder on its own (src/src/lib/AudioStream/AudioRecorder.ts)     *)

\* start() calls are numbered in call order.  The stream getUserMedia
\* returns to call i, the source node and the worklet nodes call i creates,
\* and the promise it stores in this.starting are all named i.
Calls == 1..MaxStarts

\* The stream a caller passes to start(stream)
CallerStream == MaxStarts + 1

\* The fields of a new AudioRecorder, lines 19-27, and around them: where
\* each start() call stands, the promises that carry a handleStop reaction
\* (line 115), the source-to-worklet connections that exist, the worklets
\* whose port is closed, and the streams whose tracks have been stopped.
NewAudioRecorder ==
    [stream |-> Null, streamCreatedInternally |-> FALSE, recording |-> FALSE,
     starting |-> Null, source |-> Null, recordingWorklet |-> Null,
     vuWorklet |-> Null,
     calls |-> [i \in Calls |-> [at |-> "idle", arg |-> Null]],
     reactions |-> {}, connected |-> {}, closed |-> {}, stoppedStreams |-> {}]

\* The start() call i is suspended at one of its awaits
InProgress(a, i) == a.calls[i].at \in {"gum", "ctx", "mod1", "mod2"}

\* A faulty handleStop that stops the tracks of whatever stream it holds
handleStopAllTracks(a) ==
    [a EXCEPT
       !.recording = FALSE,
       !.connected = {p \in @ : p[1] # a.source},
       !.closed = @ \cup ({a.recordingWorklet} \ {Null}),
       !.stoppedStreams = IF a.stream # Null THEN @ \cup {a.stream} ELSE @,
       !.stream = Null, !.source = Null,
       !.recordingWorklet = Null, !.vuWorklet = Null]

\* handleStop of the AudioRecorder object, lines 96-112
handleStopOfRecorder(a) ==
    [a EXCEPT
       !.recording = FALSE,
       !.connected = {p \in @ : p[1] # a.source},
       !.closed = @ \cup ({a.recordingWorklet} \ {Null}),
       !.stoppedStreams = IF a.stream # Null /\ a.streamCreatedInternally
                          THEN @ \cup {a.stream} ELSE @,
       !.stream = Null, !.source = Null,
       !.recordingWorklet = Null, !.vuWorklet = Null]

\* The promise of call i settles: resolve() or reject() (lines 85, 87), the
\* finally block (line 89), then the handleStop reaction if stop() queued
\* one on this promise.
SettleCall(a, i, outcome) ==
    LET settled == [a EXCEPT !.calls[i].at = outcome, !.starting = Null]
    IN  IF i \in a.reactions
        THEN handleStopOfRecorder([settled EXCEPT !.reactions = @ \ {i}])
        ELSE settled

\* A faulty start() that also returns when a start is in progress
startGuarded(a, i, stream, hasMediaDevices) ==
    IF a.recording \/ a.starting # Null
    THEN [a EXCEPT !.calls[i] = [at |-> "skipped", arg |-> stream]]
    ELSE IF stream # Null
    THEN [a EXCEPT !.stream = stream, !.streamCreatedInternally = FALSE,
                   !.calls[i] = [at |-> "ctx", arg |-> stream],
                   !.starting = i]
    ELSE IF ~hasMediaDevices
    THEN [a EXCEPT !.calls[i] = [at |-> "rejected", arg |-> stream],
                   !.starting = i]
    ELSE [a EXCEPT !.calls[i] = [at |-> "gum", arg |-> stream],
                   !.starting = i]

\* start(stream?) up to its first await, lines 33-52.  The executor runs
\* inside the Promise constructor, so this.starting is assigned after it:
\* when the executor throws before any await (no mediaDevices), its finally
\* block has already run and this.starting keeps the rejected promise.
startOfRecorder(a, i, stream, hasMediaDevices) ==
    IF a.recording
    THEN [a EXCEPT !.calls[i] = [at |-> "skipped", arg |-> stream]]
    ELSE IF stream # Null
    THEN [a EXCEPT !.stream = stream, !.streamCreatedInternally = FALSE,
                   !.calls[i] = [at |-> "ctx", arg |-> stream],
                   !.starting = i]
    ELSE IF ~hasMediaDevices
    THEN [a EXCEPT !.calls[i] = [at |-> "rejected", arg |-> stream],
                   !.starting = i]
    ELSE [a EXCEPT !.calls[i] = [at |-> "gum", arg |-> stream],
                   !.starting = i]

\* One await of call i settles and the executor runs to its next await,
\* lines 48-91.  createMediaStreamSource(undefined) and a connect on an
\* undefined source throw a TypeError, which the catch block turns into a
\* rejection.
continueStart(a, i, ok) ==
    LET at == a.calls[i].at
    IN  IF ~ok THEN SettleCall(a, i, "rejected")
        ELSE IF at = "gum"
        THEN [a EXCEPT !.stream = i, !.streamCreatedInternally = TRUE,
                       !.calls[i].at = "ctx"]
        ELSE IF at = "ctx"
        THEN IF a.stream = Null THEN SettleCall(a, i, "rejected")
             ELSE [a EXCEPT !.source = i, !.calls[i].at = "mod1"]
        ELSE IF at = "mod1"
        THEN IF a.source = Null
             THEN SettleCall([a EXCEPT !.recordingWorklet = i], i, "rejected")
             ELSE [a EXCEPT !.recordingWorklet = i,
                            !.connected = @ \cup {<< a.source, i >>},
                            !.calls[i].at = "mod2"]
        ELSE IF a.source = Null
             THEN SettleCall([a EXCEPT !.vuWorklet = i], i, "rejected")
             ELSE SettleCall([a EXCEPT !.vuWorklet = i, !.recording = TRUE],
                             i, "resolved")

\* stop(), lines 95-119
stopOfRecorder(a) ==
    IF a.starting # Null
    THEN IF InProgress(a, a.starting)
         THEN [a EXCEPT !.reactions = @ \cup {a.starting}]
         ELSE handleStopOfRecorder(a)
    ELSE handleStopOfRecorder(a)

\* The variables of the two pages
pageVars == << status, isCapturing, commentary, topics, liveTranscript,
               sessionRef, audioRecorderRef, capturedStreamRef, audioTrackRef,
               mediaRecorderRef, intervalIdRef, pc, track, stops, listeners,
               session, rec, mrec, timers, requests, now, rendered, fed,
               nsteps >>

\* The client calls start(stream) or start()
AudioRecorderStart(i, stream, hasMediaDevices) ==
    /\ recorder.calls[i].at = "idle"
    /\ IF i = 1 THEN TRUE ELSE recorder.calls[i - 1].at # "idle"
    /\ recorder' = startOfRecorder(recorder, i, stream, hasMediaDevices)
    /\ hist' = [hist EXCEPT !.stopDuringStart = {}]
    /\ UNCHANGED << pageVars, retry >>

\* An await of call i settles
AudioRecorderAwait(i, ok) ==
    /\ InProgress(recorder, i)
    /\ recorder' = continueStart(recorder, i, ok)
    /\ UNCHANGED << pageVars, retry, hist >>

\* The client calls stop()
AudioRecorderStop ==
    /\ recorder' = stopOfRecorder(recorder)
    /\ hist' = [hist EXCEPT !.stopDuringStart =
                                @ \cup {i \in Calls : InProgress(recorder, i)}]
    /\ UNCHANGED << pageVars, retry >>

NextRecorder ==
    \/ \E i \in Calls, s \in {Null, CallerStream}, d \in BOOLEAN :
          AudioRecorderStart(i, s, d)
    \/ \E i \in Calls, ok \in BOOLEAN : AudioRecorderAwait(i, ok)
    \/ AudioRecorderStop

-----------------------------------------------------------------------------
(* GeminiService.generateWithRetry (src/unnamed/part_005)                  *)

\* options?.maxRetries ?? 10, line 136
DefaultMaxRetries == 10

\* options.maxRetries is absent
NoOption == -1

\* The maxRetries options a caller passes: none, or a count from 0 upwards
RetryOptions == {NoOption} \cup 0..MaxRetries

\* No call has been made.  Besides the locals of generateWithRetry (attempt,
\* maxRetries, lastError) the record holds where the call stands, the
\* temperature of the attempt under way, and counts of the generateContent
\* calls made, of the attempts that failed and of the delays started.
NoRetry ==
    [at |-> "idle", maxRetries |-> 0, attempt |-> 0, lastError |-> "none",
     temperature |-> "none", calls |-> 0, failures |-> 0, waits |-> 0]

\* The loop test and the start of the loop body, lines 145-155: another
\* generateContent call, with the temperature raised for the last attempts,
\* or the throw of line 177 when the loop is left.
nextAttempt(r, attempt) ==
    IF attempt <= r.maxRetries
    THEN [r EXCEPT !.at = "calling", !.attempt = attempt,
                   !.calls = @ + 1,
                   !.temperature = IF attempt >= r.maxRetries - 3
                                   THEN "raised" ELSE "given"]
    ELSE [r EXCEPT !.at = "thrown", !.attempt = attempt,
                   !.temperature = "none"]

\* A faulty catch block that waits after every failed attempt
attemptFailedAlwaysWaiting(r, message) ==
    LET failed == [r EXCEPT !.lastError = message, !.failures = @ + 1]
    IN  [failed EXCEPT !.at = "waiting", !.waits = @ + 1]

\* The catch block, lines 156-174: the error is kept and a delay is started
\* unless this was the last attempt, in which case the loop is left.
attemptFailed(r, message) ==
    LET failed == [r EXCEPT !.lastError = message, !.failures = @ + 1]
    IN  IF r.attempt < r.maxRetries
        THEN [failed EXCEPT !.at = "waiting", !.waits = @ + 1]
        ELSE nextAttempt(failed, r.attempt + 1)

\* generateWithRetry is called, lines 132-145
GenerateWithRetry(option) ==
    /\ retry.at = "idle"
    /\ retry' = nextAttempt(
                   [retry EXCEPT !.maxRetries = IF option = NoOption
                                                THEN DefaultMaxRetries
                                                ELSE option], 1)
    /\ UNCHANGED << pageVars, recorder, hist >>

\* The generateContent call of the attempt under way returns, lines 153-155
AttemptSucceeds ==
    /\ retry.at = "calling"
    /\ retry' = [retry EXCEPT !.at = "returned"]
    /\ UNCHANGED << pageVars, recorder, hist >>

\* The generateContent call of the attempt under way throws an Error or
\* something else, lines 156-157
AttemptFails(message) ==
    /\ retry.at = "calling"
    /\ retry' = attemptFailed(retry, message)
    /\ UNCHANGED << pageVars, recorder, hist >>

\* The delay of line 173 elapses and the loop goes round, line 145
DelayElapses ==
    /\ retry.at = "waiting"
    /\ retry' = nextAttempt(retry, retry.attempt + 1)
    /\ UNCHANGED << pageVars, recorder, hist >>

NextRetry ==
    \/ \E option \in RetryOptions : GenerateWithRetry(option)
    \/ AttemptSucceeds
    \/ \E message \in {"message", "Unknown error"} : AttemptFails(message)
    \/ DelayElapses

NoTracks == [audio |-> "none", video |-> "none"]

Init ==
    /\ status = "initial"
    /\ isCapturing = FALSE
    /\ commentary = << >>
    /\ topics = << >>
    /\ liveTranscript = << >>
    /\ sessionRef = Null
    /\ audioRecorderRef = Null
    /\ capturedStreamRef = Null
    /\ audioTrackRef = Null
    /\ mediaRecorderRef = Null
    /\ intervalIdRef = Null
    /\ pc = [c \in Captures |-> "idle"]
    /\ track = [c \in Captures |-> NoTracks]
    /\ stops = [c \in Captures |-> [audio |-> 0, video |-> 0]]
    /\ listeners = {}
    /\ session = [c \in Captures |-> "none"]
    /\ rec = [c \in Captures |-> NoRecorder]
    /\ mrec = [c \in Captures |-> NoMediaRecorder]
    /\ timers = {}
    /\ requests = {}
    /\ now = 0
    /\ rendered = FALSE
    /\ recorder = NewAudioRecorder
    /\ retry = NoRetry
    /\ fed = << >>
    /\ nsteps = 0
    /\ hist = [sent |-> {}, ended |-> {}, both |-> {}, late |-> FALSE,
               stopped |-> {}, failed |-> {}, chunkFailed |-> FALSE,
               emptyDropped |-> FALSE, gated |-> FALSE,
               accepted |-> [c \in Captures |-> << >>], afresh |-> {},
               stopDuringStart |-> {}]

\* Messages of the streaming-controller specification
LiveMessages ==
    { << TextPart(<< "a", "." >>) >>, << CallPart("addNewTopic", << "T" >>) >> }

\* Fragments of the assembler specification
Hello == << "H", "e", "l", "l", "o", " " >>
World == << "w", "o", "r", "l", "d", ".", " " >>
NextWord == << "N", "e", "x", "t" >>
Sentence == << " ", "s", "e", "n", "t", "e", "n", "c", "e", "." >>
PartialThought == << "P", "a", "r", "t", "i", "a", "l", " ",
                     "t", "h", "o", "u", "g", "h", "t" >>
Blank == << " " >>
YesNo == << "Y", "e", "s", "!", " ", "N", "o" >>
NewTitle == << "T" >>

\* Messages of the assembler specification: text parts, a blank part, an ignored part
\* (empty text, then the silence marker with a blank before it), new-topic
\* calls with a fresh title and with the default topic's title, and a call
\* of another function after a text part.
AssemblerMessages ==
    { << TextPart(Hello) >>, << TextPart(World) >>, << TextPart(NextWord) >>,
      << TextPart(Sentence) >>, << TextPart(PartialThought) >>,
      << TextPart(Blank) >>,
      << TextPart(<< >>), TextPart(<< " " >> \o Silence) >>,
      << CallPart("addNewTopic", NewTitle) >>,
      << CallPart("addNewTopic", GeneralDiscussion) >>,
      << TextPart(YesNo), CallPart("other", NewTitle) >> }

NextAssembler ==
    \/ \E m \in AssemblerMessages : ModelResponse(m)
    \/ StopCapture

SpecAssembler == Init /\ [][NextAssembler]_vars

NextLive ==
    \/ \E c \in Captures : StartCapture(c)
    \/ \E c \in Captures, e \in {"NotAllowedError", "Error"} : PermissionDenied(c, e)
    \/ \E c \in Captures, a \in BOOLEAN, k \in BOOLEAN : PermissionGranted(c, a, k)
    \/ \E c \in Captures : ConnectResolved(c)
    \/ \E c \in Captures : ConnectRejected(c)
    \/ \E c \in Captures : RecorderConnects(c)
    \/ \E c \in Captures : RecorderStartResolved(c)
    \/ \E c \in Captures : RecorderStartRejected(c)
    \/ \E c \in Captures : RecorderData(c)
    \/ StopButton
    \/ Render
    \/ \E c \in Captures, v \in BOOLEAN : AudioTrackEnded(c, v)
    \/ \E c \in Captures : SessionError(c)
    \/ \E c \in Captures : SessionClosed(c)
    \/ \E c \in Captures, m \in LiveMessages : OnMessage(c, m)

SpecLive == Init /\ [][NextLive]_vars

SpecRR == Init /\ [][NextRR]_vars

SpecRecorder == Init /\ [][NextRecorder]_vars

SpecRetry == Init /\ [][NextRetry]_vars

\* Every generateContent call settles and every timer fires
SpecRetryFair == SpecRetry /\ WF_vars(NextRetry)

-----------------------------------------------------------------------------
(* Claims about the streaming controller (SpecLive) *)

\* The controller is Idle: not capturing and no startCapture in progress.
Idle == ~isCapturing /\ \A c \in Captures : pc[c] \in {"idle", "done"}

\* C4: a model result that arrives after stopCapture was called is
\* discarded.  hist.late records that a result delivered while capturing is
\* false, by a session that stopCapture closed (streaming) or for a capture
\* that stopCapture stopped (request/response), changed the topics, the
\* commentary list or the live-transcript buffer.
C4_LateResultDiscarded == ~hist.late

\* C5: once the audio track's 'ended' event and a manual stop have both
\* happened for a capture, every track acquired for it has been stopped
\* exactly once and none is live.
C5_TracksReleasedOnce ==
    \A c \in hist.both : \A k \in {"audio", "video"} :
        track[c][k] # "none" => (stops[c][k] = 1 /\ track[c][k] # "live")

\* C7: no frame emitted by a recorder on which stopCapture has called
\* stop() is passed to sendRealtimeInput.
C7_NoFrameAfterStop == "afterStop" \notin hist.sent

\* C8: a connected session is the one sessionRef holds, and no session is
\* open while the controller is Idle.
C8_OneSession ==
    /\ \A c \in Captures : session[c] = "open" => sessionRef = c
    /\ Idle => \A c \in Captures : session[c] # "open"

-----------------------------------------------------------------------------
(* Claims about the request/response controller (SpecRR) *)

\* C3: at most one transcription request of a capture session is in
\* flight at any time.
C3_OneRequestInFlight ==
    \A c \in Captures : Cardinality({r \in requests : r.cap = c}) <= 1

\* C6: no chunk of a capture is sent to the transcription endpoint once
\* stopCapture has been called for that capture.
C6_NoChunkAfterStop == \A r \in requests : ~r.afterStop

-----------------------------------------------------------------------------
(* Claims about the incremental assembler (SpecAssembler) *)

StripWhitespace(s) == SelectSeq(s, LAMBDA ch : ch \notin Whitespace)

\* Concatenation of a sequence of texts
RECURSIVE Concat(_)
Concat(ss) == IF ss = << >> THEN << >> ELSE Head(ss) \o Concat(Tail(ss))

\* Fragments the claims count: neither empty nor the silence marker
\* (case-insensitive, trimmed).
IsSilenceOrEmpty(fragment) ==
    fragment = << >> \/ trim(toLowerCase(fragment)) = SilenceMarker

\* The counted fragments among the parts delivered, in arrival order
CountedFragments(parts) ==
    SelectSeq([i \in 1..Len(parts) |-> parts[i].text],
              LAMBDA f : ~IsSilenceOrEmpty(f))

\* Every sentence stored in the topics: topic order, then entry order
StoredSentences(ts) ==
    Concat([i \in 1..Len(ts) |-> Concat(ts[i].commentaries)])

Last(seq) == seq[Len(seq)]

\* C1: conservation.  The text of all sentences stored in the topics' 
\* commentaries (topic order, then entry order) followed by the buffer
\* equals, whitespace ignored, the concatenation in arrival order of the
\* fragments delivered that are neither empty nor the silence marker.
C1_Conservation ==
    StripWhitespace(StoredSentences(topics) \o liveTranscript)
        = StripWhitespace(Concat(CountedFragments(fed)))

\* C1 witness: three counted fragments and an ignored one were delivered,
\* a sentence is stored and text is pending in the buffer.
C1_Witness ==
    /\ Len(CountedFragments(fed)) = 3
    /\ \E i \in 1..Len(fed) : fed[i].text = << " " >> \o Silence
    /\ topics # << >>
    /\ StoredSentences(topics) # << >>
    /\ liveTranscript # << >>

\* The worked example's fragments as delivered parts
ExampleParts ==
    << TextPart(Hello), TextPart(World), TextPart(NextWord), TextPart(Sentence) >>

HelloWorld == << "H", "e", "l", "l", "o", " ", "w", "o", "r", "l", "d", "." >>
NextSentence == << "N", "e", "x", "t", " ",
                   "s", "e", "n", "t", "e", "n", "c", "e", "." >>

\* C2: the worked example.  After "Hello ", "world. " the only topic is
\* "General Discussion" with commentaries ["Hello world."] and the buffer is
\* empty; after "Next", " sentence." as well its commentaries are
\* ["Hello world.", "Next sentence."].  (No stop in between: status is
\* still the initial one.)
C2_WorkedExample ==
    status = "initial" =>
        /\ fed = SubSeq(ExampleParts, 1, 2) =>
              /\ Len(topics) = 1
              /\ topics[1].title = GeneralDiscussion
              /\ topics[1].commentaries = << HelloWorld >>
              /\ liveTranscript = << >>
        /\ fed = ExampleParts =>
              /\ Len(topics) = 1
              /\ topics[1].commentaries = << HelloWorld, NextSentence >>

Unterminated(text) == trim(text) # << >> /\ Last(trim(text)) \notin Terminals

\* C9: a stop while the buffer holds unterminated text appends that text as
\* the final entry of the open (last) topic's commentaries, creating the
\* default topic when there is none, keeps what was stored before, and
\* leaves the buffer empty.
C9_StopFlushesPending ==
    [][(StopCapture /\ Unterminated(liveTranscript)) =>
          /\ liveTranscript' = << >>
          /\ topics' # << >>
          /\ Last(topics').commentaries # << >>
          /\ Last(Last(topics').commentaries) = trim(liveTranscript)
          /\ IF topics = << >>
             THEN /\ Len(topics') = 1
                  /\ topics'[1].title = GeneralDiscussion
                  /\ Len(topics'[1].commentaries) = 1
             ELSE /\ Len(topics') = Len(topics)
                  /\ \A i \in 1..Len(topics) - 1 : topics'[i] = topics[i]
                  /\ Last(topics').title = Last(topics).title
                  /\ Last(topics').commentaries =
                        Append(Last(topics).commentaries, trim(liveTranscript))
    ]_vars

\* C9 witness: "Partial thought" was the last part delivered, under the
\* topic "T", and a stop has stored it there and emptied the buffer.
C9_Witness ==
    /\ status = "stopped"
    /\ fed = << CallPart("addNewTopic", NewTitle), TextPart(PartialThought) >>
    /\ liveTranscript = << >>
    /\ Len(topics) = 1
    /\ topics[1].title = NewTitle
    /\ topics[1].commentaries = << PartialThought >>

\* C10: titles are unique: no two topics of the list have the same title.
C10_TitlesUnique ==
    \A i, j \in 1..Len(topics) : topics[i].title = topics[j].title => i = j

\* C10 witness: a new-topic call was delivered twice with the same title,
\* and once with the title of the default topic that already existed.
C10_Witness ==
    /\ \E i, j \in 1..Len(fed) :
          /\ i < j
          /\ fed[i] = CallPart("addNewTopic", NewTitle)
          /\ fed[j] = fed[i]
    /\ \E i \in 1..Len(topics) : topics[i].id = InitialTopicId
    /\ \E j \in 1..Len(fed) : fed[j] = CallPart("addNewTopic", GeneralDiscussion)

-----------------------------------------------------------------------------
(* Further claims about the request/response controller (SpecRR) *)

\* C11: in request/response mode no two topics of the list have the same
\* title: a response whose newTopic is the title of an existing topic adds
\* nothing.
C11_TitlesUniqueRR ==
    \A i \in 1..Len(topics) : \A j \in 1..Len(topics) :
        i # j => topics[i].title # topics[j].title

-----------------------------------------------------------------------------
(* Further claims about the incremental assembler (SpecAssembler) *)

\* C12: flush is idempotent.  In every state, flushLiveTranscript applied
\* to an empty buffer changes neither topics, commentary list nor buffer,
\* and flushing twice gives the same state as flushing once.
C12_FlushIdempotent ==
    LET once == flushLiveTranscript(CurrentAsm)
    IN  /\ liveTranscript = << >> => once = CurrentAsm
        /\ flushLiveTranscript(once) = once

\* C12 witness: text is pending under a topic, so that the first flush
\* stores a sentence and the second one has nothing left to store.
C12_Witness ==
    /\ liveTranscript = PartialThought
    /\ Len(topics) = 2
    /\ flushLiveTranscript(CurrentAsm) # CurrentAsm

-----------------------------------------------------------------------------
(* Further claims about the streaming controller (SpecLive) *)

\* C13: stopCapture is idempotent.  In every state two consecutive calls
\* leave the state one call leaves; and a call made when the controller is
\* Idle stops no track, closes no session, stops no recorder and leaves
\* topics, commentary list and buffer as they are.
C13_StopIdempotent ==
    LET once == stopCapture(Ctl)
    IN  /\ stopCapture(once) = once
        /\ Idle =>
              /\ once.track = track /\ once.stops = stops
              /\ once.session = session /\ once.rec = rec
              /\ once.topics = topics
              /\ once.commentary = commentary
              /\ once.liveTranscript = liveTranscript

\* C14: when the acquired audio track of a capture ends, the teardown of
\* stopCapture runs with the event: a track that has ended is no longer
\* held by audioTrackRef or capturedStreamRef, whether it ended while
\* startCapture was still in progress or while capturing.
C14_EndedTrackTornDown ==
    \A c \in Captures :
        track[c].audio = "ended" => (audioTrackRef # c /\ capturedStreamRef # c)

\* C15: a close or error event of the session tears the capture down with
\* the session reference cleared: a session that has closed is not the one
\* sessionRef holds, in whatever state the controller was when it closed.
C15_ClosedSessionCleared ==
    \A c \in Captures : session[c] = "closed" => sessionRef # c

-----------------------------------------------------------------------------
(* Claims about failing starts (SpecRR, SpecLive) *)

\* C16: a startCapture invocation that failed (permission denied, missing
\* API key, connect failure, recorder failure) has left the controller
\* Idle: capturing was false when it finished, and of what it had acquired
\* no session is open, no recorder or timer is running and the audio track
\* is not live.
C16_FailedStartIdle ==
    \A f \in hist.failed :
        /\ ~f.capturing
        /\ track[f.cap].audio # "live"
        /\ session[f.cap] # "open"
        /\ rec[f.cap].phase \notin {"starting", "recording"}
        /\ mrec[f.cap].state # "recording"
        /\ f.cap \notin timers

\* C17: the status that remains when a failed startCapture of the streaming
\* page has finished is the error report (the permission-denied message or
\* the 'Error: ...' message), not the 'Capture stopped' message.
C17_FailedStartStatus ==
    \A f \in hist.failed : f.status \in {"denied", "error"}

\* C18: a startCapture whose granted display stream has no audio track
\* stops every track of that stream, opens no session, creates no recorder
\* or timer, registers no 'ended' listener and does not set capturing.
C18_NoAudioReleasesAll ==
    [][\A c \in Captures :
          (pc[c] = "permission" /\ pc'[c] = "done" /\ track'[c].audio = "none"
             /\ track'[c].video # "none")
          => /\ track'[c].video = "stopped"
             /\ stops'[c].video = 1
             /\ UNCHANGED << session, sessionRef, rec, audioRecorderRef, mrec,
                             mediaRecorderRef, timers, intervalIdRef,
                             listeners, isCapturing >>
             /\ \A d \in Captures \ {c} : track'[d] = track[d]
    ]_vars

\* C18 witness: a startCapture has finished with a display stream that had
\* a video track and no audio track.
C18_Witness ==
    \E c \in Captures :
        /\ pc[c] = "done"
        /\ track[c] = [audio |-> "none", video |-> "stopped"]
        /\ status = "noAudio"

\* C19: a failing chunk request (a thrown fetch, a non-2xx status, a body
\* with status 'error') does not end the capture: the handler leaves
\* capturing, topics and commentary as they are, and when the page is
\* capturing the recorder it holds is recording again afterwards.
C19_FailedChunkContinues ==
    [][\A req \in requests, result \in Results :
          (Response(req, result) /\ ~(result.ok /\ result.status = "success"))
          => /\ UNCHANGED << isCapturing, topics, commentary >>
             /\ isCapturing => mrec'[mediaRecorderRef].state = "recording"
    ]_vars

\* C19 witness: in a single capture the request of the first chunk failed,
\* and the second chunk has been recorded and sent.
C19_Witness ==
    /\ hist.chunkFailed
    /\ isCapturing
    /\ pc = [c \in Captures |-> IF c = 1 THEN "done" ELSE "idle"]
    /\ nsteps = 2
    /\ requests # {}

\* C20: a new-topic signal of the streaming page flushes first and adds the
\* topic second.  With a title no topic has, the buffered text is stored in
\* the topic that was open (or in the default topic when there was none),
\* the new topic is last with no commentaries, and the buffer is empty;
\* with a title some topic already has, only the flush is performed.
C20_FlushThenAdd ==
    [][\A title \in {NewTitle, GeneralDiscussion} :
          ModelResponse(<< CallPart("addNewTopic", title) >>)
          => LET flushed == flushLiveTranscript(CurrentAsm)
             IN  /\ liveTranscript' = << >>
                 /\ commentary' = flushed.commentary
                 /\ topics' = IF HasTitle(flushed.topics, title)
                               THEN flushed.topics
                               ELSE Append(flushed.topics,
                                           NewTopic(DateNowId(now), title, << >>))
    ]_vars

\* C21: a message whose parts are text fragments that are empty or equal
\* the silence marker after trimming and lower-casing changes nothing in the
\* streaming assembler: topics, commentary and the buffer stay as they are.
C21_IgnoredFragmentNoChange ==
    [][\A m \in AssemblerMessages :
          (/\ \A i \in 1..Len(m) :
                 m[i].functionCall = NoCall /\ IsSilenceOrEmpty(m[i].text)
           /\ ModelResponse(m))
          => UNCHANGED << topics, commentary, liveTranscript >>
    ]_vars

\* C21 witness: the silence marker was delivered last, with text pending in
\* the buffer and a sentence stored.
C21_Witness ==
    /\ Len(fed) > 2
    /\ Last(fed) = TextPart(<< " " >> \o Silence)
    /\ liveTranscript # << >>
    /\ commentary # << >>

\* The commentaries of all topics, in topic order and then entry order
TopicCommentaries(ts) == Concat([i \in 1..Len(ts) |-> ts[i].commentaries])

\* C22: on the request/response page every commentary of the commentary
\* list is held by exactly one topic (a commentary that arrives with no
\* topic open goes to a default 'General Discussion' topic): the commentary
\* list is the topics' commentaries in order, and is empty when there is no
\* topic.
C22_CommentaryInTopicRR == commentary = TopicCommentaries(topics)

\* C23: a chunk with zero captured bytes is dropped without a request, and
\* the recording cycle continues: when the page is capturing, the recorder
\* it holds is recording again after the handler.
C23_EmptyChunkDropped ==
    [][\A c \in Captures :
          DataAvailable(c, 0)
          => /\ requests' = requests
             /\ UNCHANGED << nsteps, topics, commentary >>
             /\ isCapturing => mrec'[mediaRecorderRef].state = "recording"
    ]_vars

\* C23 witness: an empty chunk was dropped during a single capture that has
\* posted nothing, and the recorder is recording again.
C23_Witness ==
    /\ hist.emptyDropped
    /\ isCapturing
    /\ pc = [c \in Captures |-> IF c = 1 THEN "done" ELSE "idle"]
    /\ nsteps = 0
    /\ mrec[1] = [state |-> "recording", queued |-> 0]

\* C24: startCapture clears the session state before it acquires the
\* stream: right after the call (the capture waits for the permission
\* prompt) topics, commentary and the live-transcript buffer are empty.
\* Stated for the streaming page, which has all three.
C24_StartClears ==
    [][\A c \in Captures :
          StartCapture(c)
          => /\ pc'[c] = "permission"
             /\ topics' = << >>
             /\ commentary' = << >>
             /\ liveTranscript' = << >>
    ]_vars

\* C24 witness: the second capture has just been started after the first
\* one received a message, and the session state is empty.
C24_Witness ==
    /\ pc[2] = "permission"
    /\ nsteps = 1
    /\ topics = << >> /\ commentary = << >> /\ liveTranscript = << >>

\* C25: on the streaming page every frame the recorder emits before
\* stopCapture, while its session is open, is forwarded to that session:
\* the 'data' handler never drops or gates such a frame.
C25_EveryFrameForwarded ==
    [][\A c \in Captures :
          (RecorderData(c) /\ session[c] = "open" /\ ~rec[c].stopCalled)
          => (sessionRef = c /\ isCapturing)
    ]_vars

\* C26: topic ids are unique within a session: after any sequence of
\* fragments and new-topic signals, two signals with different titles and
\* the same clock reading included, no two topics of the list have the same
\* id.
C26_TopicIdsUnique ==
    \A i \in 1..Len(topics) : \A j \in 1..Len(topics) :
        i # j => topics[i].id # topics[j].id

\* C27: on the request/response page the 'commentary' context posted with a
\* chunk is the newline-join, in emission order, of exactly the
\* commentaries accepted from the responses to the earlier chunks of the
\* same capture.
C27_ContextOfOwnSession ==
    [][\A c \in Captures :
          DataAvailable(c, 1)
          => \A req \in requests' \ requests :
                req.commentary = JoinLines(hist.accepted[c])
    ]_vars

\* C30: on the request/response page a request issued by a capture that has
\* since been stopped, completing after a new capture was started (after
\* that stop), leaves the topics and the commentary list alone and does not
\* start the new capture's recorder.
C30_StaleResponseIgnored ==
    [][\A req \in requests, result \in Results :
          (/\ Response(req, result)
           /\ req.cap \in hist.stopped
           /\ \E d \in hist.afresh : d > req.cap)
          => /\ UNCHANGED << topics, commentary >>
             /\ \A d \in Captures \ {req.cap} : mrec'[d] = mrec[d]
    ]_vars

\* C28: on the streaming page the flat commentary list is always the
\* concatenation of the topics' commentaries in topic order: fragment
\* appends, flushes, new-topic signals and stop keep the two in step, from
\* the empty state a start leaves.
C28_CommentaryMatchesTopics ==
    Len(commentary) = Len(TopicCommentaries(topics))
    /\ \A i \in 1..Len(commentary) : commentary[i] = TopicCommentaries(topics)[i]

\* C28 witness: two topics that both hold sentences
C28_Witness ==
    /\ Len(topics) = 2
    /\ topics[1].commentaries # << >>
    /\ topics[2].commentaries # << >>
    /\ Len(commentary) > 2

\* C29: an error or close event of a session that stopCapture has already
\* closed, delivered while a capture started after that is Requesting or
\* Capturing, leaves the later capture's session, recorder and tracks
\* untouched.
C29_StaleSessionEventIgnored ==
    [][\A c \in Captures :
          (/\ SessionError(c) \/ SessionClosed(c)
           /\ session[c] = "closing"
           /\ sessionRef # c
           /\ \E d \in hist.afresh : d > c)
          => \A d \in Captures \ {c} :
                session'[d] = session[d] /\ rec'[d] = rec[d] /\ track'[d] = track[d]
    ]_vars

\* C31: on the request/response page, after stopCapture and until the next
\* startCapture (the status still reads 'Capture stopped'), no interval
\* timer is left to tick and no recorder is recording; a request that
\* completes in that time starts no recorder.
C31_NoRestartAfterStop ==
    [][status = "stopped"
       => /\ timers = {}
          /\ \A c \in Captures : mrec[c].state # "recording"
          /\ \A c \in Captures : mrec'[c].state = "recording" => status' # "stopped"
    ]_vars

\* The buffer has no white space at either end, and a sentence terminal at
\* most once and only as its last character.
BufferShape(buffer) ==
    /\ buffer = trim(buffer)
    /\ \A i \in 1..Len(buffer) : buffer[i] \in Terminals => i = Len(buffer)

EndsInTerminal(buffer) == buffer # << >> /\ buffer[Len(buffer)] \in Terminals

\* The buffered sentence is the next entry of commentary, and the sentences
\* added to commentary are pushed onto the open topic.
BufferedSentenceMoved ==
    /\ Len(commentary') > Len(commentary)
    /\ commentary'[Len(commentary) + 1] = liveTranscript
    /\ SubSeq(commentary', 1, Len(commentary)) = commentary
    /\ topics' = PushToOpenTopic(topics, SubSeq(commentary', Len(commentary) + 1,
                                                Len(commentary')))

\* C32 as stated: after every step the buffer has the shape above, and a
\* buffer ending in a terminal that receives a further fragment which is
\* not ignored (not empty, not the silence marker) has its sentence moved to
\* the open topic.
C32_BufferShape ==
    [][/\ BufferShape(liveTranscript')
       /\ \A m \in AssemblerMessages :
             (/\ Len(m) = 1 /\ m[1].functionCall = NoCall
              /\ ~IsSilenceOrEmpty(m[1].text)
              /\ EndsInTerminal(liveTranscript)
              /\ ModelResponse(m))
             => BufferedSentenceMoved
    ]_vars

\* C32 amended: the same, for a further fragment that is not ignored and
\* holds a character other than white space.
C32_BufferShapeNonBlank ==
    [][/\ BufferShape(liveTranscript')
       /\ \A m \in AssemblerMessages :
             (/\ Len(m) = 1 /\ m[1].functionCall = NoCall
              /\ ~IsSilenceOrEmpty(m[1].text)
              /\ trim(m[1].text) # << >>
              /\ EndsInTerminal(liveTranscript)
              /\ ModelResponse(m))
             => BufferedSentenceMoved
    ]_vars

\* C32 witness: 'sentence.' was buffered, and the fragment 'Next' moved it
\* to the default topic.
C32_Witness ==
    /\ fed = << TextPart(Sentence), TextPart(NextWord) >>
    /\ liveTranscript = NextWord
    /\ Len(commentary) = 1
    /\ Len(topics) = 1 /\ topics[1].commentaries = commentary

IsPrefix(s, t) == Len(s) <= Len(t) /\ SubSeq(t, 1, Len(s)) = s

\* C33: frame property of the streaming assembler.  A message or a stop
\* only appends: commentary keeps its entries in place, no topic is removed
\* or moved, every topic keeps its id and title, and only the topic that
\* was last (or a topic added by the step) receives sentences, at the end
\* of its commentaries.
C33_AssemblerFrame ==
    [][/\ IsPrefix(commentary, commentary')
       /\ Len(topics') >= Len(topics)
       /\ \A i \in 1..Len(topics) :
             /\ topics'[i].id = topics[i].id
             /\ topics'[i].title = topics[i].title
             /\ IsPrefix(topics[i].commentaries, topics'[i].commentaries)
             /\ i < Len(topics) => topics'[i] = topics[i]
    ]_vars

\* C33 witness: the default topic and a later topic both hold sentences
\* and the buffer has been flushed.
C33_Witness ==
    /\ Len(topics) = 2
    /\ topics[1].title = GeneralDiscussion /\ topics[1].commentaries # << >>
    /\ topics[2].title = NewTitle /\ topics[2].commentaries # << >>
    /\ liveTranscript = << >>


-----------------------------------------------------------------------------
(* Claims about the AudioRecorder                                          *)

\* C34: a stop() that arrives while a start() is in progress is not lost:
\* once no start() is in progress any more, and until start() is called
\* again, the recorder has recording = false, its stream, source and worklet
\* references are cleared, and the source of every start() that was in
\* progress at the stop() is disconnected.
C34_StopDuringStartNotLost ==
    (/\ hist.stopDuringStart # {}
     /\ \A i \in Calls : ~InProgress(recorder, i))
    => /\ ~recorder.recording
       /\ recorder.stream = Null
       /\ recorder.source = Null
       /\ recorder.recordingWorklet = Null
       /\ recorder.vuWorklet = Null
       /\ \A p \in recorder.connected : p[1] \notin hist.stopDuringStart

\* C35: stop() stops the tracks of a stream only when the recorder obtained
\* that stream itself through getUserMedia; the tracks of a stream the
\* caller passed to start(stream) are never stopped.
C35_OnlyOwnTracksStopped ==
    /\ [](CallerStream \notin recorder.stoppedStreams)
    /\ [][recorder'.stoppedStreams # recorder.stoppedStreams
           => /\ recorder.streamCreatedInternally
              /\ recorder.stream \in Calls
              /\ recorder'.stoppedStreams =
                     recorder.stoppedStreams \cup {recorder.stream}]_vars

\* C35 witness: a start on the caller's stream resolved and was stopped, and
\* a later start on the recorder's own stream was stopped with its tracks.
C35_Witness ==
    /\ recorder.calls[1] = [at |-> "resolved", arg |-> CallerStream]
    /\ 1 \in recorder.closed
    /\ recorder.calls[2] = [at |-> "resolved", arg |-> Null]
    /\ recorder.stoppedStreams = {2}
    /\ recorder.stream = Null

\* C37: at most one start() is in progress at a time, so that at most one
\* pipeline is being built: a start() called while an earlier start() is
\* in progress returns without reaching an await.
C37_OneStartAtATime ==
    Cardinality({i \in Calls : InProgress(recorder, i)}) <= 1


-----------------------------------------------------------------------------
(* Claims about GeminiService.generateWithRetry                            *)

\* What the counts of a generateWithRetry call are at each point: attempt n
\* is the n-th generateContent call and follows n - 1 failures and n - 1
\* delays; a delay follows a failed attempt only when it was not the last;
\* a return follows the first success; the throw follows maxRetries calls
\* that all failed, with no delay after the last.
RetryCounts ==
    /\ retry.calls <= retry.maxRetries
    /\ retry.at = "calling"
         => /\ retry.calls = retry.attempt
            /\ retry.failures = retry.attempt - 1
            /\ retry.waits = retry.attempt - 1
    /\ retry.at = "waiting"
         => /\ retry.attempt < retry.maxRetries
            /\ retry.calls = retry.attempt
            /\ retry.failures = retry.attempt
            /\ retry.waits = retry.attempt
    /\ retry.at = "returned"
         => /\ retry.calls = retry.attempt
            /\ retry.failures = retry.calls - 1
            /\ retry.waits = retry.failures
    /\ retry.at = "thrown"
         => /\ retry.calls = retry.maxRetries
            /\ retry.failures = retry.maxRetries
            /\ retry.waits = IF retry.maxRetries = 0 THEN 0
                             ELSE retry.maxRetries - 1

\* C36: generateWithRetry calls generateContent at most maxRetries times,
\* returns at the first success without a further attempt, throws only
\* after maxRetries failures in a row, waits after every failed attempt but
\* the last, and ends (returns or throws) when every attempt and every
\* delay ends.
C36_RetryBoundedAndEnds ==
    /\ [](retry.at # "idle" => RetryCounts)
    /\ (retry.at # "idle") ~> (retry.at \in {"returned", "thrown"})

\* C36 witness: with the default of 10 attempts all failed, the call threw
\* after 10 calls and 9 delays.
C36_Witness ==
    /\ retry.at = "thrown"
    /\ retry.maxRetries = DefaultMaxRetries
    /\ retry.calls = DefaultMaxRetries
    /\ retry.waits = DefaultMaxRetries - 1
    /\ retry.lastError = "Unknown error"

=============================================================================
